---- MODULE Spec2Model ----
(***************************************************************************)
(* DomoActors-Py: the mailbox of an actor (ArrayMailbox, BoundedMailbox)   *)
(* as a state machine.  One step of the model is one uninterrupted run of  *)
(* code on the asyncio event loop: a whole synchronous method (send,       *)
(* suspend, resume, close, dispatch), or the part of the _dispatch_all     *)
(* coroutine between two suspension points (task start .. await deliver,   *)
(* await deliver .. next await deliver or return).                         *)
(* On top of the mailbox stands one supervised actor: the counter actor of *)
(* the supervision tests, its handler outcomes, and the supervisor that    *)
(* applies its directive to the actor after a handler failure.             *)
(* Beside them stand the scheduler of the stage and, behind the same        *)
(* mailbox, two actors of the bank example whose handlers call the actor's *)
(* own proxy and await the completion.                                     *)
(***************************************************************************)
EXTENDS Integers, Sequences, FiniteSets

\* ------------------------------------------------------------------ bounds
\* Number of messages ever passed to send(); message i is the i-th send.
MaxMsgs == 4
\* Largest capacity of a BoundedMailbox the model constructs (0..MaxCapacity).
MaxCapacity == 2
\* Number of actors ever created on the stage; actor i is the i-th created.
MaxActors == 3
\* Largest number of shards ("buckets") of a Directory the model constructs.
MaxBuckets == 3
\* Number of stop() calls users make on actors that are no longer Started.
MaxStops == 2
\* Largest intensity and period (ms) of the small strategies, last clock value (ms).
MaxIntensity == 2
MaxPeriod == 2
MaxTime == 3
\* Number of schedules ever made on the scheduler; schedule i is the i-th made.
MaxTasks == 2
\* Largest number of executions of one repeating schedule.
MaxTicks == 2
\* Number of cancel() calls made on one Cancellable.
MaxCancels == 2

Msgs == 1..MaxMsgs

\* message.py: EmptyMessage, the one message that is not deliverable.
EmptyMessage == 0

\* mailbox.py: OverflowPolicy
OverflowPolicy == {"DROP_OLDEST", "DROP_NEWEST", "REJECT"}

\* The two Mailbox implementations.
MailboxKind == {"ArrayMailbox", "BoundedMailbox"}

\* The supervisors the supervision tests register, by their registered name.
Supervisors == {"restart", "resume", "stop"}

\* TestStrategy: intensity() and period() of the strategy of the tests' supervisors.
TestStrategyStrict == [intensity |-> 1, period |-> 10000]

TestStrategy == [intensity |-> 5, period |-> 10000]

\* The PublicRootActor, supervisor of the actors created without a supervisor name,
\* and the intensity of its "effectively unbounded" strategy.
PublicRootActor == "public_root"
Unbounded == -1

\* The strategies explored besides TestStrategy.
Strategies == [intensity : 0..MaxIntensity, period : 1..MaxPeriod]

\* The proxies of the actors of the stage, in creation order; None is no proxy.
Actors == 1..MaxActors
None == 0

\* Addresses: the i-th call of Uuid7Address() yields address i.
Addresses == 1..MaxActors

\* The actor classes of the stop-sequence tests, by what their stop hooks do.
ActorTypes == {"Tracking", "BeforeStopError", "AfterStopError"}

VARIABLES
    kind,                   \* which class the mailbox is an instance of
    capacity,               \* BoundedMailbox._capacity
    overflow_policy,        \* BoundedMailbox._overflow_policy
    queue,                  \* _queue: the deque of pending messages
    closed,                 \* _closed
    suspended,              \* _suspended
    dispatching,            \* _dispatching
    dropped_message_count,  \* BoundedMailbox._dropped_message_count
    tasks,                  \* _dispatch_all tasks created by asyncio.create_task, not yet started
    delivering,             \* messages whose deliver() a running _dispatch_all task awaits
    sent,                   \* number of send() calls made so far
    deferred,               \* per message: the settlements of its completion, in order
    delivered,              \* the messages whose handler was invoked, in invocation order
    dead_letters,           \* the records handed to DeadLetters.failed_delivery, in order
    supervisor,             \* the name of the supervisor the actor was created under
    count,                  \* CounterActorImpl._count
    restart_count,          \* CounterActorImpl._restart_count
    before_resume_called,   \* CounterActorImpl._before_resume_called
    informs,                \* failures handed to supervisor.inform(), directive not yet applied
    stopped,                \* the actor's is_stopped()
    raised,                 \* history: messages whose handler raised
    sentDuring,             \* history: pairs <<m, h>>, the actor sent m to itself from the handler of h
    sentClosed,             \* history: messages passed to send() while is_closed()
    sentSuspended,          \* history: messages appended to the queue while is_suspended()
    evicted,                \* history: messages the overflow policy removed or refused
    burst,                  \* history: every send so far was buffered by a suspended, open
                            \* mailbox before any delivery started
    buckets,                \* Directory: the number of shards
    directory,              \* Directory: per shard, the set of <<address, proxy>> entries
    created,                \* Stage: number of actors created so far
    address,                \* per actor: the address of its Definition
    parent,                 \* per actor: its parent, None for the PublicRootActor
    type,                   \* per actor: its class
    life,                   \* per actor: its LifeCycle state
    mailbox_closed,         \* per actor: is_closed() of its mailbox
    stage_state,            \* Stage: "open", "closing" (close() running), "closed"
    hook_calls,             \* history: the stop hooks invoked, <<actor, hook>>, in order
    stop_calls,             \* history: the stop() calls made on actors no longer Started
    registry,               \* history: per address, the proxy last registered and not
                            \* unregistered since (None if there is none)
    intensity,              \* SupervisionStrategy.intensity() of the actor's supervisor
    period,                 \* SupervisionStrategy.period(), in ms
    now,                    \* the clock, in ms
    restarted_at,           \* the times at which a Restart directive was applied, in order
    task_kind,              \* Scheduler: per schedule, "once" or "repeat" ("none": not made yet)
    task_state,             \* Scheduler: per schedule, "pending", "executed" or "cancelled"
    executions,             \* per schedule: CounterHolder._count of its action
    cancel_flag,            \* per Cancellable: cancel() was called on it
    cancel_results,         \* history: per Cancellable, what its cancel() calls returned, in order
    scheduler_closed,       \* Scheduler: close() was called
    actor_class,            \* the class of the actor body behind the mailbox
    method,                 \* per message: the protocol method it invokes ("none": not sent)
    calls,                  \* per message: the self-proxy calls its handler has made
    awaits,                 \* per message: the self-sent message its handler awaits (0: none)
    pending_transfers,      \* TransferCoordinatorActor._pending_transfers, for one transaction id
    transactions,           \* len(TransactionHistoryActor._transactions)
    deposits,               \* history: to_account.deposit calls that returned
    failed_deposits,        \* history: to_account.deposit calls that raised
    refunds,                \* history: from_account.refund calls that returned
    retries,                \* RetryTasks scheduled and not yet run
    retries_scheduled,      \* history: scheduler().schedule_once calls
    completed               \* history: the statuses complete_transfer logged, in order

config == <<kind, capacity, overflow_policy>>
hist   == <<sentClosed, sentSuspended, evicted, burst>>
actor  == <<supervisor, count, restart_count, before_resume_called, informs, stopped>>
single == <<kind, capacity, overflow_policy, queue, closed, suspended, dispatching,
            dropped_message_count, tasks, delivering, sent, deferred, delivered,
            dead_letters, sentClosed, sentSuspended, evicted, burst,
            supervisor, count, restart_count, before_resume_called, informs, stopped,
            raised, sentDuring, intensity, period, now, restarted_at>>
window == <<intensity, period, now, restarted_at>>
scheduler == <<task_kind, task_state, executions, cancel_flag, cancel_results,
               scheduler_closed>>
ledger == <<pending_transfers, transactions, deposits, failed_deposits, refunds, retries,
            retries_scheduled, completed>>
bank   == <<actor_class, method, calls, awaits, pending_transfers, transactions, deposits,
            failed_deposits, refunds, retries, retries_scheduled, completed>>
stage  == <<buckets, directory, created, address, parent, type, life, mailbox_closed,
            stage_state, hook_calls, stop_calls, registry>>
vars   == <<buckets, directory, created, address, parent, type, life, mailbox_closed,
            stage_state, hook_calls, stop_calls, registry,
            kind, capacity, overflow_policy, queue, closed, suspended, dispatching,
            dropped_message_count, tasks, delivering, sent, deferred, delivered,
            dead_letters, sentClosed, sentSuspended, evicted, burst,
            supervisor, count, restart_count, before_resume_called, informs, stopped,
            raised, sentDuring, intensity, period, now, restarted_at,
            task_kind, task_state, executions, cancel_flag, cancel_results,
            scheduler_closed,
            actor_class, method, calls, awaits, pending_transfers, transactions, deposits,
            failed_deposits, refunds, retries, retries_scheduled, completed>>

\* ------------------------------------------------------------------ helpers
\* Number of _dispatch_all worker tasks that are scheduled or running.
Workers == tasks + Cardinality(delivering)

\* Deferred.resolve(value) / Deferred.reject(error): one more settlement of m.
settle(d, m, outcome) == [d EXCEPT ![m] = Append(@, outcome)]

\* DeadLetters.failed_delivery(DeadLetter(message.to(), message.representation()))
failed_delivery(dl, m) == Append(dl, m)

\* Message.is_deliverable(): false only for EmptyMessage.
is_deliverable(m) == m # EmptyMessage

\* is_receivable(): len(self._queue) > 0
is_receivable(q) == Len(q) > 0

\* is_full(): len(self._queue) >= self._capacity
is_full(q) == Len(q) >= capacity

\* Mutant of receive: pops the newest message (pop() for popleft()).
receiveNewest(q) ==
    IF Len(q) > 0 THEN [message |-> q[Len(q)], queue |-> SubSeq(q, 1, Len(q) - 1)]
    ELSE [message |-> EmptyMessage, queue |-> q]

\* Mutant of receive: the head is read and left in the queue.
receivePeeking(q) ==
    IF Len(q) > 0 THEN [message |-> Head(q), queue |-> q]
    ELSE [message |-> EmptyMessage, queue |-> q]

\* receive(): popleft, or EmptyMessage when the queue is empty.
receive(q) ==
    IF Len(q) > 0 THEN [message |-> Head(q), queue |-> Tail(q)]
    ELSE [message |-> EmptyMessage, queue |-> q]

\* send() starting a worker whenever the mailbox is not suspended, whether or not one
\* is already dispatching.
SendStartsDispatchIgnoringFlag(s, d) == ~s

\* ------------------------------------------------------------------ guards
\* send(): "if not self._suspended and not self._dispatching"
SendStartsDispatch(s, d) == ~s /\ ~d

\* Mutant of LoopStops: the loop tests _suspended only.
LoopStopsOnSuspendedOnly(s, c) == s

\* Mutant of LoopStops: the loop tests _closed only.
LoopStopsOnClosedOnly(s, c) == c

\* _dispatch_all(): "if self._suspended or self._closed: break"
LoopStops(s, c) == s \/ c

\* _dispatch_all() finally: "if not self._suspended and not self._closed and self.is_receivable()"
FinallyRestarts(s, c, q) == ~s /\ ~c /\ is_receivable(q)

\* dispatch(): not already dispatching, not suspended, not closed, receivable
DispatchStarts(s, c, d, q) == ~d /\ ~s /\ ~c /\ is_receivable(q)

\* Mutant of ResumeStarts: resume() only clears the flag and starts no worker.
ResumeStartsNothing(d, q) == FALSE

\* Mutant of ResumeStarts: resume() forgets the _dispatching flag.
ResumeStartsIgnoringFlag(d, q) == is_receivable(q)

\* resume(): "if self.is_receivable() and not self._dispatching"
ResumeStarts(d, q) == is_receivable(q) /\ ~d

\* ------------------------------------------------------------------ initial state
\* The actor bodies: the counter actor of the tests and two actors of the bank example.
ActorClass == {"CounterActorImpl", "TransactionHistoryActor", "TransferCoordinatorActor"}

\* No pending transfer is recorded under the transaction id.
NoTransfer == [status |-> "none", attempts |-> 0]

\* A new actor body of any class: nothing recorded, no message made.
BodyFields ==
    /\ method = [m \in Msgs |-> "none"]
    /\ calls = [m \in Msgs |-> 0]
    /\ awaits = [m \in Msgs |-> 0]
    /\ pending_transfers = NoTransfer
    /\ transactions = 0
    /\ deposits = 0
    /\ failed_deposits = 0
    /\ refunds = 0
    /\ retries = 0
    /\ retries_scheduled = 0
    /\ completed = <<>>

\* A new mailbox (__init__ of either class) and a new actor body, no message sent.
MailboxFields ==
    /\ queue = <<>>
    /\ closed = FALSE
    /\ suspended = FALSE
    /\ dispatching = FALSE
    /\ dropped_message_count = 0
    /\ tasks = 0
    /\ delivering = {}
    /\ sent = 0
    /\ deferred = [m \in Msgs |-> <<>>]
    /\ delivered = <<>>
    /\ dead_letters = <<>>
    /\ sentClosed = {}
    /\ sentSuspended = {}
    /\ evicted = {}
    /\ burst = TRUE
    /\ count = 0
    /\ restart_count = 0
    /\ before_resume_called = FALSE
    /\ informs = 0
    /\ stopped = FALSE
    /\ raised = {}
    /\ sentDuring = {}
    /\ now = 0
    /\ restarted_at = <<>>
    /\ BodyFields

\* A new mailbox (__init__ of either class), a new CounterActorImpl, no message sent.
InitFields ==
    /\ MailboxFields
    /\ actor_class = "CounterActorImpl"

\* supervision_strategy() of the actor's supervisor returns s.
supervision_strategy(s) == intensity = s.intensity /\ period = s.period

\* The schedules of the scheduler, in the order they are made.
Tasks == 1..MaxTasks

\* A new DefaultScheduler: nothing scheduled, not closed.
SchedulerFields ==
    /\ task_kind = [t \in Tasks |-> "none"]
    /\ task_state = [t \in Tasks |-> "pending"]
    /\ executions = [t \in Tasks |-> 0]
    /\ cancel_flag = [t \in Tasks |-> FALSE]
    /\ cancel_results = [t \in Tasks |-> <<>>]
    /\ scheduler_closed = FALSE

\* A new Directory and a new LocalStage: no actor created, nothing registered,
\* and the scheduler the stage owns.
StageFields ==
    /\ directory = [b \in 0..(buckets - 1) |-> {}]
    /\ created = 0
    /\ address = [i \in Actors |-> None]
    /\ parent = [i \in Actors |-> None]
    /\ type = [i \in Actors |-> "Tracking"]
    /\ life = [i \in Actors |-> "New"]
    /\ mailbox_closed = [i \in Actors |-> FALSE]
    /\ stage_state = "open"
    /\ hook_calls = <<>>
    /\ stop_calls = 0
    /\ registry = [a \in Addresses |-> None]
    /\ SchedulerFields

\* A mailbox of either class on its own, driven by its callers; no supervisor acts.
Init ==
    /\ buckets = 1
    /\ StageFields
    /\ kind \in MailboxKind
    /\ capacity \in (IF kind = "BoundedMailbox" THEN 0..MaxCapacity ELSE {0})
    /\ overflow_policy \in (IF kind = "BoundedMailbox" THEN OverflowPolicy ELSE {"DROP_OLDEST"})
    /\ supervisor = "restart"
    /\ supervision_strategy(TestStrategy)
    /\ InitFields

\* ------------------------------------------------------------------ the dispatch worker
\* Mutant of Finally: the worker leaves without clearing _dispatching.
FinallyKeepingFlag(s, t) ==
    /\ queue' = queue
    /\ delivered' = delivered
    /\ dispatching' = dispatching
    /\ tasks' = t

\* _dispatch_all(), the finally block, run by a worker that leaves the loop: s is the
\* suspended flag it sees, t the number of other tasks still scheduled.
Finally(s, t) ==
    /\ queue' = queue
    /\ delivered' = delivered
    /\ IF FinallyRestarts(s, closed, queue)
       THEN dispatching' = TRUE /\ tasks' = t + 1
       ELSE dispatching' = FALSE /\ tasks' = t

\* _dispatch_all(), from the top of the while loop up to the next "await
\* message.deliver()" or to the end of the coroutine: s is the suspended flag, t the
\* number of other scheduled tasks, d the deliveries other workers are awaiting.
DispatchLoop(s, t, d) ==
    IF LoopStops(s, closed)
    THEN Finally(s, t) /\ delivering' = d
    ELSE LET r == receive(queue) IN
         IF ~is_deliverable(r.message)
         THEN Finally(s, t) /\ delivering' = d
         ELSE /\ queue' = r.queue
              /\ delivering' = d \cup {r.message}
              /\ delivered' = Append(delivered, r.message)
              /\ dispatching' = dispatching
              /\ tasks' = t

\* The event loop starts a task created by asyncio.create_task(self._dispatch_all()).
WorkerStart ==
    /\ tasks > 0
    /\ DispatchLoop(suspended, tasks - 1, delivering)
    /\ UNCHANGED <<stage, scheduler, bank, window, config, closed, suspended, dropped_message_count, sent, deferred,
                   dead_letters, hist, actor, raised, sentDuring>>

\* CounterActorImpl.increment() / cause_error(): the handler of a message either adds
\* one to the counter and returns a value, or raises and leaves the counter alone.
CounterActorImpl(outcome) ==
    count' = IF outcome = "value" THEN count + 1 ELSE count

\* Message.deliver(), as seen by the mailbox when the handler has ended with a value
\* or has raised: the completion is settled with the value or with the error, and on
\* an error the mailbox is suspended and the supervisor is informed.
deliver(m, outcome) ==
    /\ deferred' = settle(deferred, m, outcome)
    /\ suspended' = (suspended \/ outcome = "error")
    /\ informs' = IF outcome = "error" THEN informs + 1 ELSE informs

\* "await message.deliver()" returns to the worker, which goes round its loop.
DeliverDone(m, outcome) ==
    /\ m \in delivering
    /\ CounterActorImpl(outcome)
    /\ deliver(m, outcome)
    /\ DispatchLoop(suspended', tasks, delivering \ {m})
    /\ raised' = IF outcome = "error" THEN raised \cup {m} ELSE raised
    /\ UNCHANGED <<stage, scheduler, bank, window, config, closed, dropped_message_count, sent, dead_letters, hist,
                   supervisor, restart_count, before_resume_called, stopped, sentDuring>>

\* ------------------------------------------------------------------ send
\* Mutant of SendClosed: resolves with None but hands nothing to the dead letters.
SendClosedSilently(m) ==
    /\ deferred' = settle(deferred, m, "None")
    /\ UNCHANGED <<dead_letters, queue, dispatching, tasks, dropped_message_count, evicted>>

\* The closed branch of send(), the same in both classes: dead letter, resolve(None).
SendClosed(m) ==
    /\ dead_letters' = failed_delivery(dead_letters, m)
    /\ deferred' = settle(deferred, m, "None")
    /\ UNCHANGED <<queue, dispatching, tasks, dropped_message_count, evicted>>

\* The append branch of send(), the same in both classes: append, start a worker
\* unless one is dispatching or the mailbox is suspended.
SendAppend(m) ==
    /\ queue' = Append(queue, m)
    /\ IF SendStartsDispatch(suspended, dispatching)
       THEN dispatching' = TRUE /\ tasks' = tasks + 1
       ELSE UNCHANGED <<dispatching, tasks>>
    /\ UNCHANGED <<dead_letters, deferred, dropped_message_count, evicted>>

\* Mutant of ArraySend: send() without the test of _closed.
ArraySendIgnoringClosed(m) == SendAppend(m)

\* ArrayMailbox.send(message)
ArraySend(m) ==
    IF ~closed THEN SendAppend(m) ELSE SendClosed(m)

\* Mutant of NotifyDropped: resolves the completion without counting the drop.
NotifyDroppedUncounted(m) ==
    /\ dropped_message_count' = dropped_message_count
    /\ deferred' = settle(deferred, m, "None")
    /\ evicted' = evicted \cup {m}

\* BoundedMailbox._notify_dropped(message): count it, resolve(None).
NotifyDropped(m) ==
    /\ dropped_message_count' = dropped_message_count + 1
    /\ deferred' = settle(deferred, m, "None")
    /\ evicted' = evicted \cup {m}

\* Mutant of DropOldest: evicts the head without counting or settling it.
DropOldestUncounted(m) ==
    IF Len(queue) > 0
    THEN /\ queue' = Append(Tail(queue), m)
         /\ evicted' = evicted \cup {Head(queue)}
         /\ UNCHANGED <<dead_letters, deferred, dropped_message_count, dispatching, tasks>>
    ELSE /\ queue' = Append(queue, m)
         /\ UNCHANGED <<dead_letters, deferred, dropped_message_count, evicted,
                        dispatching, tasks>>

\* Mutant of DropOldest: notifies the head as dropped but leaves it in the queue.
DropOldestKeepingHead(m) ==
    IF Len(queue) > 0
    THEN /\ NotifyDropped(Head(queue))
         /\ queue' = Append(queue, m)
         /\ UNCHANGED <<dead_letters, dispatching, tasks>>
    ELSE /\ queue' = Append(queue, m)
         /\ UNCHANGED <<dead_letters, deferred, dropped_message_count, evicted,
                        dispatching, tasks>>

\* BoundedMailbox._handle_overflow(new_message), policy DROP_OLDEST
DropOldest(m) ==
    IF Len(queue) > 0
    THEN /\ NotifyDropped(Head(queue))
         /\ queue' = Append(Tail(queue), m)
         /\ UNCHANGED <<dead_letters, dispatching, tasks>>
    ELSE /\ queue' = Append(queue, m)
         /\ UNCHANGED <<dead_letters, deferred, dropped_message_count, evicted,
                        dispatching, tasks>>

\* Mutant of DropNewest: counts and settles the new message, and appends it all the same.
DropNewestAppending(m) ==
    /\ NotifyDropped(m)
    /\ queue' = Append(queue, m)
    /\ UNCHANGED <<dead_letters, dispatching, tasks>>

\* BoundedMailbox._handle_overflow(new_message), policy DROP_NEWEST
DropNewest(m) ==
    /\ NotifyDropped(m)
    /\ UNCHANGED <<queue, dead_letters, dispatching, tasks>>

\* Mutant of Reject: dead-letters the new message without counting it as dropped.
RejectUncounted(m) ==
    /\ dead_letters' = failed_delivery(dead_letters, m)
    /\ deferred' = settle(deferred, m, "None")
    /\ evicted' = evicted \cup {m}
    /\ UNCHANGED <<queue, dispatching, tasks, dropped_message_count>>

\* BoundedMailbox._handle_overflow(new_message), policy REJECT
Reject(m) ==
    /\ dead_letters' = failed_delivery(dead_letters, m)
    /\ deferred' = settle(deferred, m, "None")
    /\ dropped_message_count' = dropped_message_count + 1
    /\ evicted' = evicted \cup {m}
    /\ UNCHANGED <<queue, dispatching, tasks>>

\* BoundedMailbox._handle_overflow(new_message)
HandleOverflow(m) ==
    CASE overflow_policy = "DROP_OLDEST" -> DropOldest(m)
      [] overflow_policy = "DROP_NEWEST" -> DropNewest(m)
      [] overflow_policy = "REJECT"      -> Reject(m)

\* Mutant of BoundedSend: the queue counts as full one message early.
BoundedSendFullEarly(m) ==
    IF closed THEN SendClosed(m)
    ELSE IF Len(queue) + 1 >= capacity THEN HandleOverflow(m)
    ELSE SendAppend(m)

\* BoundedMailbox.send(message)
BoundedSend(m) ==
    IF closed THEN SendClosed(m)
    ELSE IF is_full(queue) THEN HandleOverflow(m)
    ELSE SendAppend(m)

\* send(message) of the mailbox's class.
SendMessage(m) ==
    IF kind = "ArrayMailbox" THEN ArraySend(m) ELSE BoundedSend(m)

\* The next message is passed to send(); what the history variables keep of it.
SendNext(m) ==
    /\ sent' = m
    /\ SendMessage(m)
    /\ sentClosed' = IF closed THEN sentClosed \cup {m} ELSE sentClosed
    /\ sentSuspended' = IF suspended /\ ~closed /\ Len(queue') > 0
                           /\ queue'[Len(queue')] = m
                        THEN sentSuspended \cup {m} ELSE sentSuspended
    /\ burst' = (burst /\ suspended /\ ~closed /\ delivered = <<>>)
    /\ UNCHANGED <<stage, scheduler, window, config, closed, suspended, delivering, delivered, actor, raised>>

\* A caller (a proxy, another actor) passes the next message to send().
Send ==
    /\ sent < MaxMsgs
    /\ SendNext(sent + 1)
    /\ sentDuring' = sentDuring
    /\ UNCHANGED bank

\* The actor, inside the handler of h, calls its own proxy: the next message is passed
\* to send() of its own mailbox while a worker awaits the delivery of h.
SelfSend ==
    /\ sent < MaxMsgs
    /\ delivering # {}
    /\ SendNext(sent + 1)
    /\ sentDuring' = sentDuring \cup {<<sent + 1, h>> : h \in delivering}
    /\ UNCHANGED bank

\* ------------------------------------------------------------------ suspend, resume, close, dispatch
\* suspend()
Suspend ==
    /\ suspended' = TRUE
    /\ UNCHANGED <<stage, scheduler, bank, window, config, queue, closed, dispatching, dropped_message_count, tasks,
                   delivering, sent, deferred, delivered, dead_letters, hist, actor,
                   raised, sentDuring>>

\* Mutant of resume: the flag is flipped instead of cleared.
resumeToggling ==
    /\ suspended' = ~suspended
    /\ IF ResumeStarts(dispatching, queue)
       THEN dispatching' = TRUE /\ tasks' = tasks + 1
       ELSE UNCHANGED <<dispatching, tasks>>

\* The body of resume(): clear the flag, start a worker for pending messages.
resume ==
    /\ suspended' = FALSE
    /\ IF ResumeStarts(dispatching, queue)
       THEN dispatching' = TRUE /\ tasks' = tasks + 1
       ELSE UNCHANGED <<dispatching, tasks>>

\* resume(), called on the mailbox by a caller
Resume ==
    /\ resume
    /\ UNCHANGED <<stage, scheduler, bank, window, config, queue, closed, dropped_message_count, delivering, sent,
                   deferred, delivered, dead_letters, hist, actor, raised, sentDuring>>

\* Mutant of Close: close() also discards the queued messages.
CloseClearing ==
    /\ closed' = TRUE
    /\ queue' = <<>>
    /\ UNCHANGED <<stage, scheduler, bank, window, config, suspended, dispatching, dropped_message_count,
                   tasks, delivering, sent, deferred, delivered, dead_letters, hist,
                   actor, raised, sentDuring>>

\* close(), called on the mailbox by a caller
Close ==
    /\ closed' = TRUE
    /\ UNCHANGED <<stage, scheduler, bank, window, config, queue, suspended, dispatching, dropped_message_count, tasks,
                   delivering, sent, deferred, delivered, dead_letters, hist, actor,
                   raised, sentDuring>>

\* dispatch()
Dispatch ==
    /\ IF DispatchStarts(suspended, closed, dispatching, queue)
       THEN dispatching' = TRUE /\ tasks' = tasks + 1
       ELSE UNCHANGED <<dispatching, tasks>>
    /\ UNCHANGED <<stage, scheduler, bank, window, config, queue, closed, suspended, dropped_message_count, delivering,
                   sent, deferred, delivered, dead_letters, hist, actor, raised,
                   sentDuring>>

\* ------------------------------------------------------------------ specification
HandlerReturns == \E m \in Msgs, outcome \in {"value", "error"} : DeliverDone(m, outcome)

Next ==
    \/ Send
    \/ Suspend
    \/ Resume
    \/ Close
    \/ Dispatch
    \/ WorkerStart
    \/ HandlerReturns

Spec == Init /\ [][Next]_vars

\* The event loop runs every task it has scheduled, and handlers terminate.
FairSpec == Spec /\ WF_vars(WorkerStart) /\ WF_vars(HandlerReturns)

TypeOK ==
    /\ kind \in MailboxKind
    /\ capacity \in 0..MaxCapacity
    /\ overflow_policy \in OverflowPolicy
    /\ queue \in Seq(Msgs)
    /\ closed \in BOOLEAN /\ suspended \in BOOLEAN /\ dispatching \in BOOLEAN
    /\ dropped_message_count \in 0..MaxMsgs
    /\ tasks \in 0..(MaxMsgs + 1)
    /\ delivering \subseteq Msgs
    /\ sent \in 0..MaxMsgs
    /\ supervisor \in Supervisors \cup {PublicRootActor}
    /\ count \in 0..MaxMsgs /\ restart_count \in 0..MaxMsgs /\ informs \in 0..MaxMsgs
    /\ before_resume_called \in BOOLEAN /\ stopped \in BOOLEAN
    /\ now \in 0..MaxTime /\ restarted_at \in Seq(0..MaxTime)

\* ------------------------------------------------------------------ the supervised actor
\* decide_directive() of the supervisor registered under the name: RestartSupervisorImpl,
\* ResumeSupervisorImpl, StopSupervisorImpl.
decide_directive(name) ==
    CASE name = "restart" -> "RESTART"
      [] name = "resume"  -> "RESUME"
      [] name = "stop"    -> "STOP"

\* CounterActorImpl.before_restart(reason)
before_restart == restart_count' = restart_count + 1

\* Mutant of after_restart: the counter is left as it was.
after_restartKeepingCount == count' = count

\* CounterActorImpl.after_restart(): "self._count = 0  # Reset state"
after_restart == count' = 0

\* Mutant of before_resume: the hook records nothing.
before_resumeUnrecorded == before_resume_called' = before_resume_called

\* CounterActorImpl.before_resume()
before_resume == before_resume_called' = TRUE

\* The Restart directive: before_restart, after_restart, resume the mailbox.
ApplyRestart ==
    /\ before_restart
    /\ after_restart
    /\ resume
    /\ UNCHANGED <<before_resume_called, stopped, closed>>

\* The Resume directive: before_resume, resume the mailbox; state and body preserved.
ApplyResume ==
    /\ before_resume
    /\ resume
    /\ UNCHANGED <<count, restart_count, stopped, closed>>

\* The Stop directive: the stop transition closes the mailbox and leaves the actor
\* stopped; the mailbox is not resumed.
ApplyStop ==
    /\ closed' = TRUE
    /\ stopped' = TRUE
    /\ UNCHANGED <<count, restart_count, before_resume_called, suspended, dispatching,
                   tasks>>

\* The directive of the actor's supervisor: the decide_directive of a registered
\* supervisor, Restart for the PublicRootActor.
directive_of(name) ==
    IF name = PublicRootActor THEN "RESTART" ELSE decide_directive(name)

\* Number of the Restart directives applied at the times in the last p ms before t.
restarts_within(times, t, p) == Cardinality({k \in DOMAIN times : times[k] > t - p})

\* The strategy's bound: n restarts are allowed within the period, k were applied.
intensity_exceeded(n, k) == n # Unbounded /\ k >= n

\* The directive that is applied: a Restart that would exceed the intensity of the
\* strategy becomes a Stop.
applied_directive(name) ==
    LET directive == directive_of(name) IN
    IF /\ directive = "RESTART"
       /\ intensity_exceeded(intensity, restarts_within(restarted_at, now, period))
    THEN "STOP"
    ELSE directive

\* The supervisor's worker handles inform(error, supervised): decide_directive, then
\* the directive is applied to the failed actor, within the bound of the strategy.
SupervisorApplies ==
    /\ informs > 0
    /\ informs' = informs - 1
    /\ LET directive == applied_directive(supervisor) IN
       /\ CASE directive = "RESTART" -> ApplyRestart
            [] directive = "RESUME"  -> ApplyResume
            [] directive = "STOP"    -> ApplyStop
       /\ restarted_at' = IF directive = "RESTART" THEN Append(restarted_at, now)
                          ELSE restarted_at
    /\ UNCHANGED <<stage, scheduler, bank, intensity, period, now, config, supervisor, queue,
                   dropped_message_count, delivering, sent, deferred, delivered,
                   dead_letters, hist, raised, sentDuring>>

\* An actor created by stage.actor_for under one of the registered supervisors, with
\* the default ArrayMailbox.
ActorInit ==
    /\ buckets = 1
    /\ StageFields
    /\ kind = "ArrayMailbox"
    /\ capacity = 0
    /\ overflow_policy = "DROP_OLDEST"
    /\ supervisor \in Supervisors
    /\ supervision_strategy(TestStrategy)
    /\ InitFields

\* Callers reach the actor through its proxy only; suspend, resume and close are the
\* supervisor's.
ActorNext ==
    \/ Send
    \/ SelfSend
    \/ WorkerStart
    \/ HandlerReturns
    \/ SupervisorApplies

ActorSpec == ActorInit /\ [][ActorNext]_vars

\* The event loop runs every scheduled task, handlers terminate, and the supervisor's
\* own mailbox delivers every inform.
FairActorSpec ==
    ActorSpec /\ WF_vars(WorkerStart) /\ WF_vars(HandlerReturns)
              /\ WF_vars(SupervisorApplies)

\* ------------------------------------------------------------------ intensity and period
\* A millisecond passes.
Tick ==
    /\ now < MaxTime
    /\ now' = now + 1
    /\ UNCHANGED <<stage, scheduler, bank, config, queue, closed, suspended, dispatching,
                   dropped_message_count, tasks, delivering, sent, deferred, delivered,
                   dead_letters, hist, actor, raised, sentDuring, intensity, period,
                   restarted_at>>

\* An actor under the "restart" supervisor, whose strategy is TestStrategy or a
\* smaller one.
IntensityInit ==
    /\ buckets = 1
    /\ StageFields
    /\ kind = "ArrayMailbox"
    /\ capacity = 0
    /\ overflow_policy = "DROP_OLDEST"
    /\ supervisor = "restart"
    /\ \E s \in Strategies \cup {TestStrategy} : supervision_strategy(s)
    /\ InitFields

IntensityNext ==
    \/ ActorNext
    \/ Tick

IntensitySpec == IntensityInit /\ [][IntensityNext]_vars

\* A top-level actor created without a supervisor name: the PublicRootActor
\* supervises it, with a strategy without a bound, for which no clock matters.
RootInit ==
    /\ buckets = 1
    /\ StageFields
    /\ kind = "ArrayMailbox"
    /\ capacity = 0
    /\ overflow_policy = "DROP_OLDEST"
    /\ supervisor = PublicRootActor
    /\ intensity = Unbounded
    /\ period = TestStrategy.period
    /\ InitFields

RootSpec == RootInit /\ [][ActorNext]_vars

\* The event loop runs every scheduled task, handlers terminate, and the root's own
\* mailbox delivers every inform.
FairRootSpec ==
    RootSpec /\ WF_vars(WorkerStart) /\ WF_vars(HandlerReturns)
             /\ WF_vars(SupervisorApplies)

\* ------------------------------------------------------------------ stop() of the actor
\* proxy.stop(), up to the close of the mailbox: the actor leaves Started, before_stop
\* has run and the mailbox is closed; after_stop is still to run.
ProxyStop ==
    /\ ~closed
    /\ closed' = TRUE
    /\ UNCHANGED <<stage, scheduler, bank, window, config, queue, suspended, dispatching, dropped_message_count, tasks,
                   delivering, sent, deferred, delivered, dead_letters, hist, actor,
                   raised, sentDuring>>

\* proxy.stop() completes: after_stop has run and the actor reports is_stopped().
ProxyStopCompletes ==
    /\ closed /\ ~stopped
    /\ stopped' = TRUE
    /\ UNCHANGED <<stage, scheduler, bank, window, config, queue, closed, suspended, dispatching,
                   dropped_message_count, tasks, delivering, sent, deferred, delivered,
                   dead_letters, hist, supervisor, count, restart_count,
                   before_resume_called, informs, raised, sentDuring>>

\* The supervised actor with a caller that may stop it at any moment.
StoppableNext ==
    \/ ActorNext
    \/ ProxyStop
    \/ ProxyStopCompletes

StoppableSpec == ActorInit /\ [][StoppableNext]_vars

\* ------------------------------------------------------------------ the directory
\* Directory: the shard an address hashes to (the hash of address a is a).
shard_of(a) == a % buckets

\* Directory.has(address)
has(a) == \E e \in directory[shard_of(a)] : e[1] = a

\* Directory.get(address): the proxy registered at the address, or None.
get(a) ==
    IF has(a) THEN (CHOOSE e \in directory[shard_of(a)] : e[1] = a)[2] ELSE None

RECURSIVE SumShards(_)
SumShards(b) ==
    IF b = 0 THEN 0 ELSE Cardinality(directory[b - 1]) + SumShards(b - 1)

\* Directory.size(): "A size query sums shard sizes."
size == SumShards(buckets)

\* Mutant of put: the entry is added beside the one the address already has.
putBeside(shard, a, h) == shard \cup {<<a, h>>}

\* A shard after the proxy h is put at address a: it replaces the entry of a.
put(shard, a, h) == {e \in shard : e[1] # a} \cup {<<a, h>>}

\* Directory.register(address, proxy)
register(a, h) ==
    /\ directory' = [directory EXCEPT ![shard_of(a)] = put(@, a, h)]
    /\ registry' = [registry EXCEPT ![a] = h]

\* Directory.unregister(address); an absent address changes nothing.
unregister(a) ==
    /\ directory' = [directory EXCEPT ![shard_of(a)] = {e \in @ : e[1] # a}]
    /\ registry' = [registry EXCEPT ![a] = None]

\* A caller registers a proxy at an address.
Register ==
    /\ \E a \in Addresses, h \in Actors : register(a, h)
    /\ UNCHANGED <<single, scheduler, bank, buckets, created, address, parent, type, life, mailbox_closed,
                   stage_state, hook_calls, stop_calls>>

\* A caller unregisters an address.
Unregister ==
    /\ \E a \in Addresses : unregister(a)
    /\ UNCHANGED <<single, scheduler, bank, buckets, created, address, parent, type, life, mailbox_closed,
                   stage_state, hook_calls, stop_calls>>

\* A Directory of any shard count, on its own.
DirectoryInit ==
    /\ buckets \in 1..MaxBuckets
    /\ StageFields
    /\ kind = "ArrayMailbox" /\ capacity = 0 /\ overflow_policy = "DROP_OLDEST"
    /\ supervisor = "restart"
    /\ supervision_strategy(TestStrategy)
    /\ InitFields

DirectoryNext == Register \/ Unregister

DirectorySpec == DirectoryInit /\ [][DirectoryNext]_vars

\* ------------------------------------------------------------------ the stage
\* The actors created so far.
Created == 1..created

\* The children of actor p: the proxies in its child set.
children(p) == {c \in Created : parent[c] = p}

\* proxy.is_stopped()
is_stopped(i) == life[i] = "Stopped"

\* Stage.actor_of(address): directory lookup.
actor_of(a) == get(a)

\* Stage.actor_for(protocol, Definition(type, address, ()), parent): the actor body is
\* instantiated, its environment built, the proxy registered in the directory at the
\* address of the definition, and the proxy returned (proxy.address() is that address).
actor_for(t, a, p) ==
    /\ created < MaxActors
    /\ stage_state = "open"
    /\ created' = created + 1
    /\ address' = [address EXCEPT ![created + 1] = a]
    /\ parent' = [parent EXCEPT ![created + 1] = p]
    /\ type' = [type EXCEPT ![created + 1] = t]
    /\ life' = [life EXCEPT ![created + 1] = "Started"]
    /\ register(a, created + 1)
    /\ UNCHANGED <<single, scheduler, bank, buckets, mailbox_closed, stage_state, hook_calls, stop_calls>>

\* stage.actor_for(protocol, Definition(name, Uuid7Address(), ...)): a top-level actor
\* at a new address, its parent the PublicRootActor.
ActorFor ==
    \E t \in ActorTypes : actor_for(t, created + 1, None)

\* stage.actor_for(..., parent=parent_proxy) and ParentActorImpl.create_child: a child
\* of a started actor at a new address.
ChildActorFor ==
    \E p \in Created, t \in ActorTypes :
        /\ life[p] = "Started"
        /\ actor_for(t, created + 1, p)

\* BankActor.before_start, BankActor.open_account, AccountActor.before_start: a child
\* created with Definition(name, self.address(), ()), the address of the parent.
BankChildActorFor ==
    \E p \in Created :
        /\ life[p] = "Started"
        /\ actor_for("Tracking", address[p], p)

\* BeforeStopErrorActor.before_stop raises; the other classes return.
before_stop(t) == IF t = "BeforeStopError" THEN "raised" ELSE "returned"

\* AfterStopErrorActor.after_stop raises; the other classes return.
after_stop(t) == IF t = "AfterStopError" THEN "raised" ELSE "returned"

\* Mutant of run_hook: the exception of a hook leaves the transition.
run_hookPropagating(result) == IF result = "raised" THEN "propagated" ELSE "done"

\* A lifecycle hook is awaited inside the transition: an exception it raises is caught
\* and logged.
run_hook(result) == IF result = "raised" THEN "logged" ELSE "done"

\* Mutant of stop: every call starts the stop sequence again.
stopAgain(i) == life' = [life EXCEPT ![i] = "Stopping"]

\* stop() called on actor i: the first call takes the actor from Started to Stopping,
\* any other call does nothing.
stop(i) ==
    life' = IF life[i] = "Started" THEN [life EXCEPT ![i] = "Stopping"] ELSE life

\* A user awaits proxy.stop().
UserStop ==
    \E i \in Created :
        /\ life[i] # "Started" => stop_calls < MaxStops
        /\ stop(i)
        /\ stop_calls' = IF life[i] # "Started" THEN stop_calls + 1 ELSE stop_calls
        /\ UNCHANGED <<single, scheduler, bank, buckets, directory, created, address, parent, type,
                       mailbox_closed, stage_state, hook_calls, registry>>

\* Mutant of StopsChildrenFirst: the stopping actor does not wait for its children.
StopsChildrenNever(p) == TRUE

\* The first part of the stop sequence, "stop all children (await each)", is over.
StopsChildrenFirst(p) == \A c \in children(p) : is_stopped(c)

\* The stop sequence of p stops the next child and awaits it.
StopChildren ==
    \E p \in Created, c \in Created :
        /\ life[p] = "Stopping" /\ ~mailbox_closed[p]
        /\ c \in children(p) /\ life[c] = "Started"
        /\ \A d \in children(p) : life[d] # "Stopping"
        /\ stop(c)
        /\ UNCHANGED <<single, scheduler, bank, buckets, directory, created, address, parent, type,
                       mailbox_closed, stage_state, hook_calls, stop_calls, registry>>

\* The stop sequence of i, its children stopped: before_stop, close mailbox.
BeforeStop ==
    \E i \in Created :
        /\ life[i] = "Stopping" /\ ~mailbox_closed[i]
        /\ StopsChildrenFirst(i)
        /\ hook_calls' = Append(hook_calls, <<i, "beforeStop">>)
        /\ IF run_hook(before_stop(type[i])) = "propagated"
           THEN life' = [life EXCEPT ![i] = "Failed"] /\ UNCHANGED mailbox_closed
           ELSE mailbox_closed' = [mailbox_closed EXCEPT ![i] = TRUE] /\ UNCHANGED life
        /\ UNCHANGED <<single, scheduler, bank, buckets, directory, created, address, parent, type,
                       stage_state, stop_calls, registry>>

\* The stop sequence of i, its mailbox closed: after_stop; the actor is Stopped and
\* its address leaves the directory.
AfterStop ==
    \E i \in Created :
        /\ life[i] = "Stopping" /\ mailbox_closed[i]
        /\ hook_calls' = Append(hook_calls, <<i, "afterStop">>)
        /\ IF run_hook(after_stop(type[i])) = "propagated"
           THEN /\ life' = [life EXCEPT ![i] = "Failed"]
                /\ UNCHANGED <<directory, registry>>
           ELSE /\ life' = [life EXCEPT ![i] = "Stopped"]
                /\ unregister(address[i])
        /\ UNCHANGED <<single, scheduler, bank, buckets, created, address, parent, type, mailbox_closed,
                       stage_state, stop_calls>>

\* Stage.close() is called: the first call starts the shutdown, any other is a no-op.
StageClose ==
    /\ stage_state' = IF stage_state = "open" THEN "closing" ELSE stage_state
    /\ UNCHANGED <<single, scheduler, bank, buckets, directory, created, address, parent, type, life,
                   mailbox_closed, hook_calls, stop_calls, registry>>

\* Stage.close() stops a user actor of the PublicRootActor.
StageCloseStops ==
    \E i \in Created :
        /\ stage_state = "closing"
        /\ parent[i] = None /\ life[i] = "Started"
        /\ stop(i)
        /\ UNCHANGED <<single, scheduler, bank, buckets, directory, created, address, parent, type,
                       mailbox_closed, stage_state, hook_calls, stop_calls, registry>>

\* Mutant of close_awaited: close() returns without waiting for any stop.
close_awaitedNothing == TRUE

\* "close() waits for all stops before returning": no stop sequence is left to run.
close_awaited == \A i \in Created : life[i] \notin {"Started", "Stopping"}

\* Stage.close() has awaited every stop and returns.
StageCloseReturns ==
    /\ stage_state = "closing"
    /\ close_awaited
    /\ stage_state' = "closed"
    /\ UNCHANGED <<single, scheduler, bank, buckets, directory, created, address, parent, type, life,
                   mailbox_closed, hook_calls, stop_calls, registry>>

\* A LocalStage with its Directory; no message is sent.
StageInit ==
    /\ buckets = MaxBuckets
    /\ StageFields
    /\ kind = "ArrayMailbox" /\ capacity = 0 /\ overflow_policy = "DROP_OLDEST"
    /\ supervisor = "restart"
    /\ supervision_strategy(TestStrategy)
    /\ InitFields

StageNext ==
    \/ ActorFor
    \/ ChildActorFor
    \/ BankChildActorFor
    \/ UserStop
    \/ StopChildren
    \/ BeforeStop
    \/ AfterStop
    \/ StageClose
    \/ StageCloseStops
    \/ StageCloseReturns

StageSpec == StageInit /\ [][StageNext]_vars

\* The event loop runs every stop sequence on: hooks return or raise, they do not hang.
FairStageSpec ==
    StageSpec /\ WF_vars(StopChildren) /\ WF_vars(BeforeStop) /\ WF_vars(AfterStop)
              /\ WF_vars(StageCloseStops) /\ WF_vars(StageCloseReturns)

\* ------------------------------------------------------------------ claims
Range(seq) == {seq[i] : i \in DOMAIN seq}
Count(seq, m) == Cardinality({i \in DOMAIN seq : seq[i] = m})
Sent == 1..sent

\* C1: at most one _dispatch_all worker task is scheduled or running at any instant,
\* so no two deliveries of the same mailbox overlap, whatever the interleaving of
\* send, suspend, resume, close, dispatch and worker steps.
C1_SingleWorker == Workers <= 1 /\ Cardinality(delivering) <= 1

\* C1 witness: a worker is in the middle of a delivery, more messages wait, and a
\* message buffered during a suspension has been resumed into that worker's run.
C1_Witness ==
    /\ Workers = 1 /\ delivering # {} /\ is_receivable(queue)
    /\ ~suspended /\ ~closed
    /\ sentSuspended \cap (Range(delivered) \cup Range(queue)) # {}

\* C2: FIFO.  Messages are numbered in send order, so: deliveries start in send order,
\* and when the delivery of a later message has started the delivery of every earlier
\* delivered message has completed.
C2_Fifo ==
    \A i, j \in DOMAIN delivered :
        i < j => delivered[i] < delivered[j] /\ delivered[i] \notin delivering

\* C2 witness: three messages delivered, one of them buffered by a suspension, after a
\* worker has exited and another has been started.
C2_Witness ==
    /\ Len(delivered) >= 3
    /\ sentSuspended \cap Range(delivered) # {}
    /\ Range(delivered) \ sentSuspended # {}

\* C3: every message passed to send() has its completion settled exactly once: never
\* twice, and, in every run in which the mailbox does not stay suspended forever,
\* eventually once (by delivery, by an overflow drop or by dead-letter routing), also
\* when close() is called while messages are still queued.
C3_SettledExactlyOnce ==
    ([]<>(~suspended)) =>
        \A m \in Msgs :
            /\ [](Len(deferred[m]) <= 1)
            /\ [](m \in Sent => <>(Len(deferred[m]) = 1))

\* Nothing is left to do: no _dispatch_all task is scheduled or running and no message
\* is pending in the queue.
Quiescent == Workers = 0 /\ ~is_receivable(queue)

\* C4 as claimed: once the system is quiescent every message passed to send() has had
\* its handler invoked exactly once or exactly one dead-letter record produced, never
\* both and never neither.
C4_HandledOrDeadLetter ==
    Quiescent =>
        \A m \in Sent :
            \/ Count(delivered, m) = 1 /\ Count(dead_letters, m) = 0
            \/ Count(delivered, m) = 0 /\ Count(dead_letters, m) = 1

\* C4 as amended: a handler invocation and a dead-letter record exclude each other and
\* each happens at most once; once the system is quiescent a message has neither only
\* if DROP_OLDEST or DROP_NEWEST dropped it, its completion settled with None.
C4_AtMostOnceOutcome ==
    /\ \A m \in Sent : Count(delivered, m) + Count(dead_letters, m) <= 1
    /\ Quiescent =>
        \A m \in Sent :
            Count(delivered, m) + Count(dead_letters, m) = 0 =>
                /\ m \in evicted
                /\ overflow_policy \in {"DROP_OLDEST", "DROP_NEWEST"}
                /\ deferred[m] = <<"None">>

\* C4 witness: a quiescent mailbox that has delivered a message, dead-lettered one and
\* dropped one without a record.
C4_Witness ==
    /\ Quiescent
    /\ delivered # <<>> /\ dead_letters # <<>>
    /\ \E m \in evicted : Count(dead_letters, m) = 0

\* C5: no message is delivered more than once, and a message that an overflow policy
\* dropped or that was routed to dead letters is never delivered.
C5_NoRedelivery ==
    \A m \in Msgs :
        /\ Count(delivered, m) <= 1
        /\ (m \in evicted \/ m \in Range(dead_letters)) => m \notin Range(delivered)

\* C5 witness: messages were dropped and dead-lettered, others delivered, and the
\* workers have drained what was left.
C5_Witness ==
    /\ evicted # {} /\ dead_letters # <<>> /\ Len(delivered) >= 2
    /\ Workers = 0 /\ ~is_receivable(queue)

\* C6: after close(), every send() produces exactly one dead-letter record for its
\* message and settles its completion with None, leaves the queue unchanged, starts no
\* worker and never leads to a handler invocation; the number of dead-letter records
\* for such sends equals the number of such sends.
C6_SendAfterClose ==
    /\ [][(closed /\ sent' = sent + 1) =>
            /\ queue' = queue
            /\ tasks' = tasks /\ dispatching' = dispatching /\ delivering' = delivering
            /\ dead_letters' = Append(dead_letters, sent')
            /\ deferred' = [deferred EXCEPT ![sent'] = <<"None">>]
            /\ dropped_message_count' = dropped_message_count]_vars
    /\ [](\A m \in sentClosed :
            /\ Count(dead_letters, m) = 1
            /\ deferred[m] = <<"None">>
            /\ m \notin Range(delivered) /\ m \notin Range(queue))
    /\ [](Cardinality({i \in DOMAIN dead_letters : dead_letters[i] \in sentClosed})
            = Cardinality(sentClosed))
    /\ [](overflow_policy # "REJECT" => Len(dead_letters) = Cardinality(sentClosed))

\* C6 witness: two sends after close() on a mailbox that still holds a queued message.
C6_Witness ==
    /\ closed /\ Cardinality(sentClosed) >= 2 /\ is_receivable(queue)
    /\ Len(dead_letters) >= 2

\* C7: once close() has been called no delivery starts again: the flag stays set, the
\* queued messages stay in the queue and none is handed to a handler, whatever
\* resume(), dispatch() or worker step follows; a delivery in progress only ends.
C7_NoDeliveryAfterClose ==
    [][closed =>
        /\ closed'
        /\ delivered' = delivered
        /\ queue' = queue
        /\ delivering' \subseteq delivering]_vars

\* C7 witness: a closed mailbox that was resumed with a message still queued, whose
\* worker has come and gone, and whose delivery in progress at close() has completed.
C7_Witness ==
    /\ closed /\ ~suspended /\ Workers = 0 /\ ~dispatching
    /\ sentSuspended \cap Range(queue) # {}
    /\ \E m \in Range(delivered) : deferred[m] = <<"value">>

\* C8: no delivery starts while is_suspended() is true.  On a suspended open mailbox
\* a send() that appends grows the queue by one message and starts no worker; a
\* scheduled worker that starts exits without receiving; a worker that comes back
\* from a delivery receives nothing more.
C8_NoDeliveryWhileSuspended ==
    [][suspended =>
        /\ delivered' = delivered
        /\ delivering' \subseteq delivering
        /\ (sent' # sent /\ ~closed /\ (kind = "ArrayMailbox" \/ ~is_full(queue))) =>
              /\ queue' = Append(queue, sent')
              /\ tasks' = tasks /\ dispatching' = dispatching
        /\ (sent' = sent) => queue' = queue
        /\ (tasks' < tasks) => ~dispatching' /\ tasks' = tasks - 1]_vars

\* C8 witness: a suspended mailbox holding two buffered messages, the worker that was
\* scheduled before suspend() gone, one delivery made before the suspension.
C8_Witness ==
    /\ suspended /\ ~closed /\ Workers = 0 /\ ~dispatching
    /\ Cardinality(sentSuspended \cap Range(queue)) >= 2
    /\ delivered # <<>>

Min(a, b) == IF a <= b THEN a ELSE b

\* The last k of the messages 1..n, in send order.
LastSent(n, k) == [i \in 1..k |-> n - k + i]

\* C9: suspend buffers, resume drains.  In a run whose sends were all buffered by a
\* suspended open mailbox before any delivery, if from some point on the mailbox is
\* neither suspended (resume() was called, no handler failed afterwards) nor closed,
\* then eventually every buffered message that no overflow removed has been delivered
\* exactly once, size() is 0 and is_receivable() is false, and it stays so.  For an
\* ArrayMailbox these are all k messages.
C9_ResumeDrains ==
    (<>[](burst /\ ~suspended /\ ~closed)) =>
        <>[](/\ Len(queue) = 0 /\ ~is_receivable(queue)
             /\ \A m \in sentSuspended \ evicted : Count(delivered, m) = 1
             /\ (kind = "ArrayMailbox" => delivered = LastSent(sent, sent)))

\* C9 witness: three messages buffered by a suspended ArrayMailbox, resume() called,
\* all three delivered and the queue empty.
C9_Witness ==
    /\ kind = "ArrayMailbox" /\ burst /\ ~suspended /\ ~closed
    /\ Cardinality(sentSuspended) >= 3
    /\ delivered = LastSent(sent, sent) /\ Len(queue) = 0 /\ Workers = 0

\* C10: DROP_OLDEST with capacity c >= 1.  A send() to an open mailbox holding c
\* messages evicts the head, settles its completion with None, adds exactly 1 to
\* dropped_message_count() and appends the new message, so size() stays c.  Hence
\* after n sends to the suspended mailbox the messages delivered or still queued are
\* the last min(n, c) in send order and dropped_message_count() is max(0, n - c).
C10_DropOldest ==
    /\ [][(/\ kind = "BoundedMailbox" /\ overflow_policy = "DROP_OLDEST"
           /\ capacity >= 1 /\ ~closed /\ Len(queue) = capacity /\ sent' = sent + 1) =>
            /\ queue' = Append(Tail(queue), sent')
            /\ Len(queue') = capacity
            /\ deferred' = [deferred EXCEPT ![Head(queue)] = <<"None">>]
            /\ dropped_message_count' = dropped_message_count + 1
            /\ dead_letters' = dead_letters]_vars
    /\ []((/\ kind = "BoundedMailbox" /\ overflow_policy = "DROP_OLDEST"
           /\ capacity >= 1 /\ burst) =>
            /\ delivered \o queue = LastSent(sent, Min(sent, capacity))
            /\ dropped_message_count = sent - Min(sent, capacity))

\* C10 witness: capacity 2, four sends to the suspended mailbox, resume(): messages
\* 3 and 4 delivered, two dropped.
C10_Witness ==
    /\ kind = "BoundedMailbox" /\ overflow_policy = "DROP_OLDEST" /\ capacity = 2
    /\ burst /\ sent = 4 /\ ~suspended /\ Workers = 0
    /\ delivered = <<3, 4>> /\ queue = <<>> /\ dropped_message_count = 2
    /\ deferred[1] = <<"None">> /\ deferred[2] = <<"None">>

\* The first k messages sent, in send order.
FirstSent(k) == [i \in 1..k |-> i]

\* C11: DROP_NEWEST.  A send() to an open mailbox whose queue is at capacity leaves the
\* queue as it is, settles the new message's completion with None and adds exactly 1
\* to dropped_message_count().  Hence after n sends to the suspended mailbox the
\* messages delivered or still queued are the first min(n, c) in send order and
\* dropped_message_count() is max(0, n - c).
C11_DropNewest ==
    /\ [][(/\ kind = "BoundedMailbox" /\ overflow_policy = "DROP_NEWEST"
           /\ ~closed /\ Len(queue) >= capacity /\ sent' = sent + 1) =>
            /\ queue' = queue
            /\ deferred' = [deferred EXCEPT ![sent'] = <<"None">>]
            /\ dropped_message_count' = dropped_message_count + 1
            /\ dead_letters' = dead_letters
            /\ delivered' = delivered]_vars
    /\ []((kind = "BoundedMailbox" /\ overflow_policy = "DROP_NEWEST" /\ burst) =>
            /\ delivered \o queue = FirstSent(Min(sent, capacity))
            /\ dropped_message_count = sent - Min(sent, capacity))

\* C11 witness: capacity 2, four sends to the suspended mailbox, resume(): messages
\* 1 and 2 delivered, 3 and 4 dropped with None.
C11_Witness ==
    /\ kind = "BoundedMailbox" /\ overflow_policy = "DROP_NEWEST" /\ capacity = 2
    /\ burst /\ sent = 4 /\ ~suspended /\ Workers = 0
    /\ delivered = <<1, 2>> /\ queue = <<>> /\ dropped_message_count = 2
    /\ deferred[3] = <<"None">> /\ deferred[4] = <<"None">>

\* C12: REJECT.  A send() to an open mailbox whose queue is at capacity leaves the
\* queue as it is, produces exactly one dead-letter record for the new message,
\* settles its completion with None (not with an error) and adds exactly 1 to
\* dropped_message_count().  Hence after n sends to the suspended mailbox the messages
\* delivered or still queued are the first min(n, c) in send order, with max(0, n - c)
\* dead-letter records and the same drop count.
C12_Reject ==
    /\ [][(/\ kind = "BoundedMailbox" /\ overflow_policy = "REJECT"
           /\ ~closed /\ Len(queue) >= capacity /\ sent' = sent + 1) =>
            /\ queue' = queue
            /\ dead_letters' = Append(dead_letters, sent')
            /\ deferred' = [deferred EXCEPT ![sent'] = <<"None">>]
            /\ dropped_message_count' = dropped_message_count + 1
            /\ delivered' = delivered]_vars
    /\ []((kind = "BoundedMailbox" /\ overflow_policy = "REJECT" /\ burst) =>
            /\ delivered \o queue = FirstSent(Min(sent, capacity))
            /\ Len(dead_letters) = sent - Min(sent, capacity)
            /\ dropped_message_count = sent - Min(sent, capacity))

\* C12 witness: capacity 2, four sends to the suspended mailbox, resume(): messages
\* 1 and 2 delivered, 3 and 4 in the dead letters, drop count 2.
C12_Witness ==
    /\ kind = "BoundedMailbox" /\ overflow_policy = "REJECT" /\ capacity = 2
    /\ burst /\ sent = 4 /\ ~suspended /\ Workers = 0
    /\ delivered = <<1, 2>> /\ queue = <<>> /\ dead_letters = <<3, 4>>
    /\ dropped_message_count = 2 /\ deferred[3] = <<"None">>

\* C13: capacity is a hard bound: size() <= capacity() in every reachable state of a
\* BoundedMailbox of any capacity c >= 0 and any overflow policy.
C13_CapacityBound ==
    kind = "BoundedMailbox" => Len(queue) <= capacity

\* C15 as claimed, for the ArrayMailbox the claim cites: exactly one dispatch worker
\* when the queue holds work and the mailbox is not suspended, zero workers in every
\* other state (empty queue, or suspended).
C15_OneWorkerIffWork ==
    kind = "ArrayMailbox" =>
        IF is_receivable(queue) /\ ~suspended THEN Workers = 1 ELSE Workers = 0

\* C15 as amended: there is at most one dispatch worker, and one exactly when the
\* _dispatching flag is set.  An open, unsuspended mailbox whose queue holds work has
\* exactly one worker if it is an ArrayMailbox or a BoundedMailbox of capacity >= 1.
\* A mailbox without a worker therefore has an empty queue or is suspended or closed
\* (or has capacity 0); a worker may exist in the other states.
C15_OneWorkerIffDispatching ==
    /\ Workers <= 1
    /\ (Workers = 1) <=> dispatching
    /\ (/\ is_receivable(queue) /\ ~suspended /\ ~closed
        /\ (kind = "ArrayMailbox" \/ capacity >= 1)) => Workers = 1

\* C15 witness: a worker delivering the last message of an empty queue while the
\* mailbox has been suspended under it.
C15_Witness ==
    /\ Workers = 1 /\ delivering # {} /\ ~is_receivable(queue) /\ suspended
    /\ delivered # <<>>

\* C14: causal self-send. A message the actor sends to its own mailbox from inside a
\* handler is appended behind every message queued at that moment and starts no second
\* worker; it is delivered only after that handler has completed and after every message
\* that was sent before it.
C14_CausalSelfSend ==
    /\ [][sentDuring' # sentDuring =>
            /\ queue' = Append(queue, sent')
            /\ tasks' = tasks /\ dispatching' = dispatching
            /\ delivering' = delivering /\ delivered' = delivered
            /\ deferred' = deferred]_vars
    /\ [](\A p \in sentDuring :
            p[1] \in Range(delivered) =>
                /\ p[2] \notin delivering /\ deferred[p[2]] # <<>>
                /\ \A x \in 1..(p[1] - 1) :
                      /\ x \notin delivering
                      /\ \E i, j \in 1..Len(delivered) :
                            i < j /\ delivered[i] = x /\ delivered[j] = p[1])

\* A self-sent message, queued behind a message sent after the running one, was handled.
C14_Witness ==
    \E p \in sentDuring :
        /\ p[1] > p[2] + 1
        /\ p[1] \in Range(delivered) /\ deferred[p[1]] # <<>>

\* C16: when a handler raises while processing a message, the caller's completion for
\* that message is settled with the exception and with nothing else, and the message
\* is delivered once only: it is neither left in the queue nor handed to a worker again
\* after the actor is resumed or restarted.
C16_FailedSettledNotRedelivered ==
    \A m \in raised :
        /\ deferred[m] = <<"error">>
        /\ Count(delivered, m) = 1
        /\ m \notin Range(queue)
        /\ m \notin delivering

\* A handler raised, the directive resumed the mailbox and a later message was handled.
C16_Witness ==
    \E m \in raised :
        /\ informs = 0 /\ ~suspended /\ ~closed
        /\ \E i, j \in 1..Len(delivered) :
              i < j /\ delivered[i] = m /\ deferred[delivered[j]] # <<>>

\* C17: from the moment a handler failure is caught until the supervisor's directive is
\* applied, the mailbox is suspended and no further message is delivered; a message
\* sent in that interval is retained at the back of the queue; and under a Resume or
\* Restart directive every message sent is eventually delivered, in send order, with
\* none lost.
C17_SuspendedUntilDirective ==
    /\ [](informs > 0 => suspended)
    /\ [][informs > 0 =>
            /\ delivered' = delivered /\ delivering' = delivering
            /\ (sent' # sent => queue' = Append(queue, sent'))
            /\ (sent' = sent /\ informs' = informs => queue' = queue)]_vars
    /\ [](delivered = [i \in 1..Len(delivered) |-> i])
    /\ (decide_directive(supervisor) # "STOP" =>
            <>[](queue = <<>> /\ delivering = {} /\ Len(delivered) = sent))

\* Two handlers failed, the second on a message sent while the mailbox was suspended
\* for the first, and every message sent has been delivered.
C17_Witness ==
    /\ \E m, n \in raised : m < n /\ n \in sentSuspended
    /\ queue = <<>> /\ delivering = {} /\ Len(delivered) = sent
    /\ informs = 0

\* The number of handlers that returned a value for a message sent after every message
\* of the set after.
Increments(after) ==
    Cardinality({m \in Msgs : deferred[m] = <<"value">> /\ \A r \in after : r < m})

\* C18: Restart resets state. After a handler failure handled with the Restart
\* directive the mailbox is eventually resumed, the directive leaves the counter at the
\* 0 that after_restart sets, and a value read afterwards counts only the increments
\* handled since the restart, never those from before the failure.
C18_RestartResetsState ==
    /\ (decide_directive(supervisor) = "RESTART" /\ informs > 0) ~> (~suspended)
    /\ [][decide_directive(supervisor) = "RESTART" /\ informs' < informs =>
            count' = 0 /\ ~suspended' /\ restart_count' = restart_count + 1]_vars
    /\ [](decide_directive(supervisor) = "RESTART" /\ raised # {} /\ informs = 0 =>
            count = Increments(raised))

\* Two increments, then a failure, then the restart: the counter reads 0.
C18_Witness ==
    /\ decide_directive(supervisor) = "RESTART"
    /\ \E r \in raised :
          Cardinality({m \in 1..(r - 1) : deferred[m] = <<"value">>}) >= 2
    /\ informs = 0 /\ ~suspended /\ restart_count = 1
    /\ count = 0

\* C19: Resume preserves state. Under the Resume directive the counter is at every
\* moment the number of increments handled, the failure and the directive leaving it
\* as it was before the failing message; once the directive has been applied
\* before_resume has been called and the mailbox is resumed.
C19_ResumePreservesState ==
    /\ [](decide_directive(supervisor) = "RESUME" =>
            /\ count = Increments({})
            /\ (raised # {} /\ informs = 0 => before_resume_called /\ ~suspended)
            /\ (raised = {} => ~before_resume_called))
    /\ [][decide_directive(supervisor) = "RESUME"
            /\ (raised' # raised \/ informs' < informs) => count' = count]_vars

\* Two increments, then a failure, then the Resume directive: the counter reads 2.
C19_Witness ==
    /\ decide_directive(supervisor) = "RESUME"
    /\ \E r \in raised :
          Cardinality({m \in 1..(r - 1) : deferred[m] = <<"value">>}) = 2
    /\ informs = 0 /\ ~suspended /\ before_resume_called
    /\ count = 2

\* C20: after a handler failure for which the supervisor decides Stop, the actor
\* eventually reports is_stopped() true, its mailbox is never resumed, and no message
\* queued behind the failed one is delivered.
C20_StopNeverResumes ==
    /\ (decide_directive(supervisor) = "STOP" /\ raised # {}) ~> stopped
    /\ [](decide_directive(supervisor) = "STOP" /\ raised # {} =>
            suspended /\ delivering = {} /\ delivered[Len(delivered)] \in raised)
    /\ [][decide_directive(supervisor) = "STOP" /\ raised # {} =>
            delivered' = delivered /\ suspended']_vars
    /\ [](stopped => decide_directive(supervisor) = "STOP" /\ raised # {} /\ closed)

\* The actor is stopped and a message queued behind the failed one is still queued.
C20_Witness ==
    /\ decide_directive(supervisor) = "STOP"
    /\ stopped /\ raised # {}
    /\ \E i \in 1..Len(queue) : \A r \in raised : r < queue[i]

\* C30: after any sequence of register and unregister calls, size() is the number of
\* distinct addresses currently registered and get(address) is the proxy most recently
\* registered there, None if there is none, whatever the shard count; re-registering
\* an address leaves size() as it was, and unregistering an absent address changes
\* nothing.
C30_DirectoryIsAMap ==
    /\ [](/\ size = Cardinality({a \in Addresses : registry[a] # None})
          /\ \A a \in Addresses : get(a) = registry[a] /\ (has(a) <=> registry[a] # None))
    /\ [][/\ \A a \in Addresses :
               registry[a] # None /\ registry'[a] # None /\ registry'[a] # registry[a]
                   => size' = size /\ get(a)' = registry'[a]
            /\ (registry' = registry => directory' = directory)]_vars

\* Several shards hold entries and one address was registered again with another proxy.
C30_Witness ==
    /\ buckets > 1
    /\ size = MaxActors
    /\ \E a, b \in Addresses : shard_of(a) # shard_of(b) /\ get(a) # a /\ get(b) = get(a)

\* The hook h of actor i has been invoked.
Invoked(i, h) == <<i, h>> \in Range(hook_calls)

\* The invocation of hook g of actor i came before that of hook h of actor j.
Before(i, g, j, h) ==
    \E m, n \in DOMAIN hook_calls :
        m < n /\ hook_calls[m] = <<i, g>> /\ hook_calls[n] = <<j, h>>

\* C22: however many times stop() is called on an actor, the stop sequence runs once:
\* before_stop and after_stop are each invoked at most once, before_stop first, and
\* the actor reports is_stopped() exactly when the sequence the first call started
\* has run to its end, both hooks invoked once.
C22_StopRunsOnce ==
    \A i \in Actors :
        /\ Count(hook_calls, <<i, "beforeStop">>) <= 1
        /\ Count(hook_calls, <<i, "afterStop">>) <= 1
        /\ (Invoked(i, "afterStop") => Before(i, "beforeStop", i, "afterStop"))
        /\ (is_stopped(i) <=> Invoked(i, "afterStop"))

\* stop() was called again on actors already stopping or stopped, and an actor is
\* stopped with its two hooks invoked.
C22_Witness ==
    /\ stop_calls = 2
    /\ \E i \in Created : is_stopped(i) /\ Before(i, "beforeStop", i, "afterStop")

\* C23: children stop before the parent completes. For every parent and child, the
\* parent's after_stop is invoked only after the child's after_stop, and when the
\* parent is stopped so is every child, whether stop() or Stage.close() stopped it.
C23_ChildrenStopFirst ==
    \A p \in Created : \A c \in children(p) :
        /\ (Invoked(p, "afterStop") => Before(c, "afterStop", p, "afterStop"))
        /\ (Invoked(p, "beforeStop") => is_stopped(c))
        /\ (is_stopped(p) => is_stopped(c))

\* Stage.close() has returned and stopped a parent with two children.
C23_Witness ==
    /\ stage_state = "closed"
    /\ \E p \in Created : Cardinality(children(p)) = 2 /\ is_stopped(p)

\* C24: an exception raised by before_stop or after_stop does not block the stop
\* transition. Every actor whose stop sequence has started ends stopped with its
\* mailbox closed, whether its own hooks or those of its children raise.
C24_HookErrorsDoNotBlock ==
    /\ \A i \in Actors : (life[i] = "Stopping") ~> (is_stopped(i) /\ mailbox_closed[i])
    /\ [](\A i \in Actors : life[i] \in {"New", "Started", "Stopping", "Stopped"}
                             /\ (is_stopped(i) => mailbox_closed[i]))

\* A parent is stopped whose children are one with a raising before_stop and one with
\* a raising after_stop.
C24_Witness ==
    \E p \in Created : \E c, d \in children(p) :
        /\ type[c] = "BeforeStopError" /\ type[d] = "AfterStopError"
        /\ is_stopped(c) /\ is_stopped(d) /\ is_stopped(p) /\ mailbox_closed[p]

\* C26: directory symmetry. stage.actor_of(address) returns the proxy of every actor
\* created on the stage as long as it is not stopped, and None once its stop() has
\* completed; when a parent is stopped the addresses of its children are gone too.
C26_DirectorySymmetry ==
    \A i \in Created :
        /\ (~is_stopped(i) => actor_of(address[i]) = i)
        /\ (is_stopped(i) => actor_of(address[i]) = None)
        /\ (is_stopped(i) => \A c \in children(i) : actor_of(address[c]) = None)

\* C27: when Stage.close() has returned every actor created on the stage is stopped,
\* close() does return, and after it no hook runs and no lifecycle state changes,
\* whatever is called again.
C27_CloseStopsAll ==
    /\ [](stage_state = "closed" => \A i \in Created : is_stopped(i))
    /\ [][stage_state = "closed" =>
            hook_calls' = hook_calls /\ life' = life /\ stage_state' = "closed"]_vars
    /\ (stage_state = "closing") ~> (stage_state = "closed")

\* Stage.close() has returned with a standalone actor, a parent and its child stopped.
C27_Witness ==
    /\ stage_state = "closed"
    /\ \E s, p, c \in Created :
          /\ s # p /\ parent[s] = None /\ parent[p] = None /\ parent[c] = p
          /\ is_stopped(s) /\ is_stopped(p) /\ is_stopped(c)

\* C29: address uniqueness. No two actors created on the stage have the same address,
\* and the directory entry at the address of an actor that is not stopped is that
\* actor's proxy: creating a child replaces no entry of another actor.
C29_AddressUniqueness ==
    \A i, j \in Created :
        /\ (i # j => address[i] # address[j])
        /\ (~is_stopped(i) => actor_of(address[i]) = i)

C21_RootRestartsAlways ==
    /\ [](~stopped /\ ~closed)
    /\ [](Len(restarted_at) + informs = Cardinality(raised)
           /\ restart_count = Len(restarted_at))
    /\ [](suspended => informs > 0)
    /\ suspended ~> ~suspended
    /\ \A m \in Msgs :
          (m \in Sent) ~> (m \in Range(delivered) /\ deferred[m] # <<>>)

\* Three failures in a row were each answered with a Restart, and a message sent after
\* them was processed and returned its value.
C21_Witness ==
    /\ Len(restarted_at) = 3 /\ raised = {1, 2, 3}
    /\ deferred[MaxMsgs] = <<"value">>

\* test_rapid_sequential_failures: the number of failures caused in a row.
RapidFailures == 5

\* The Restart directives applied up to now, by the model's clock, number at most n
\* in every window of p ms.
WithinIntensity(times, n, p) ==
    \A i, j \in DOMAIN times : j - i >= n => times[j] - times[i] >= p

C33_WorkWithoutWorker ==
    (is_receivable(queue) /\ ~suspended /\ ~closed) => (dispatching /\ Workers >= 1)

\* The message m was appended to the queue by a send() that found the mailbox neither
\* suspended nor closed.
AppendedOpen(m) ==
    /\ m \in Sent /\ m \notin sentClosed /\ m \notin sentSuspended
    /\ (overflow_policy # "DROP_OLDEST" => m \notin evicted)

\* C32: no stranded message. If the mailbox is never closed and from some point on
\* stays unsuspended, every message appended to the queue of the mailbox while it was
\* neither suspended nor closed is eventually delivered, unless DROP_OLDEST evicted
\* it; for both classes, every capacity and every overflow policy.
C32_NoStrandedMessage ==
    ([]~closed /\ <>[]~suspended) =>
        \A m \in Msgs : AppendedOpen(m) ~> (m \in Range(delivered) \/ m \in evicted)

\* The state resume() leaves behind: not suspended, and a worker scheduled or running
\* if messages are queued.
Resumed == ~suspended /\ (dispatching \/ ~is_receivable(queue))

\* C34: resume() is idempotent. Every resume() call leaves is_suspended() false and
\* creates at most one worker, never a second one beside an active one; a resume()
\* call on a mailbox that a resume() call has just left changes nothing; no message is
\* delivered twice, and on a mailbox that is not closed and stays unsuspended every
\* message buffered during the suspension is delivered, unless an overflow evicted it.
C34_ResumeIdempotent ==
    /\ [][Resume => Resumed' /\ tasks' <= tasks + 1 /\ Workers' <= 1]_vars
    /\ [][Resume /\ Resumed => UNCHANGED vars]_vars
    /\ [](\A m \in Msgs : Count(delivered, m) <= 1)
    /\ (([]~closed /\ <>[]~suspended) =>
          \A m \in Msgs :
              (m \in sentSuspended) ~> (Count(delivered, m) = 1 \/ m \in evicted))

\* Two messages buffered by a suspended mailbox were delivered after resume(), each
\* once, and the worker is gone: further resume() calls find nothing to start.
C34_Witness ==
    /\ Resumed /\ ~closed /\ Workers = 0
    /\ Cardinality(sentSuspended) >= 2
    /\ \A m \in sentSuspended : Count(delivered, m) = 1

\* C35: suspension is a flag, not a counter. A suspend() call on a suspended mailbox
\* changes nothing, and a single resume() call clears the suspension whatever came
\* before. In every suspend/resume cycle the messages sent during the suspension are
\* buffered: the delivery of such a message starts only when the mailbox is no longer
\* suspended, from the head of the queue; and once the mailbox, never closed, stays
\* resumed, each of them has been delivered exactly once unless an overflow evicted it.
C35_SuspendIsAFlag ==
    /\ [][Suspend => suspended' /\ (suspended => UNCHANGED vars)]_vars
    /\ [][Resume => ~suspended']_vars
    /\ [][\A m \in sentSuspended :
            (m \notin Range(delivered) /\ m \in Range(delivered'))
                => ~suspended /\ ~suspended' /\ m = Head(queue)]_vars
    /\ (([]~closed /\ <>[]~suspended) =>
          <>[](\A m \in sentSuspended \ evicted : Count(delivered, m) = 1))

\* Two suspend/resume cycles: a message buffered in the first, one sent while the
\* mailbox was running, one buffered in the second, all three delivered.
C35_Witness ==
    /\ ~suspended /\ ~closed
    /\ \E a, b \in sentSuspended : \E c \in Sent \ sentSuspended :
          /\ a < c /\ c < b
          /\ {a, b, c} \subseteq Range(delivered)

\* C36: suspend(), resume() and close() leave the queued messages alone. A call of
\* any of them leaves the queue (its size and order), dropped_message_count(), every
\* completion, the dead letters and the deliveries made as they were; suspend() and
\* resume() leave is_closed() as it was; and no step of the mailbox resets
\* is_closed() from true to false.
C36_FlagsFrame ==
    /\ [][(Suspend \/ Resume \/ Close) =>
            /\ queue' = queue
            /\ dropped_message_count' = dropped_message_count
            /\ deferred' = deferred
            /\ dead_letters' = dead_letters
            /\ delivered' = delivered]_vars
    /\ [][(Suspend \/ Resume) => closed' = closed]_vars
    /\ [][closed => closed']_vars

\* A bounded mailbox that dropped a message was suspended, resumed and closed with two
\* buffered messages still queued.
C36_Witness ==
    /\ closed /\ ~suspended /\ dropped_message_count > 0
    /\ Len(queue) >= 2 /\ Range(queue) \subseteq sentSuspended

\* C37: dropped_message_count() never decreases and counts the messages the overflow
\* policy removed or refused. It grows by exactly one in a send() to an open mailbox
\* that does not simply append the new message (the head was evicted, or the new
\* message was refused) and in no other step; a send() to a closed mailbox produces a
\* dead letter and leaves the count alone, and so does a send() below capacity, which
\* appends. The count is the number of evicted or refused messages, 0 for an
\* ArrayMailbox.
C37_DropCount ==
    /\ [][dropped_message_count' =
            IF sent' # sent /\ ~closed /\ queue' # Append(queue, sent')
            THEN dropped_message_count + 1
            ELSE dropped_message_count]_vars
    /\ [][sent' # sent /\ closed =>
            /\ dropped_message_count' = dropped_message_count
            /\ dead_letters' = Append(dead_letters, sent')]_vars
    /\ [][sent' # sent /\ ~closed /\ kind = "BoundedMailbox" /\ Len(queue) < capacity =>
            /\ dropped_message_count' = dropped_message_count
            /\ queue' = Append(queue, sent')]_vars
    /\ [](/\ dropped_message_count = Cardinality(evicted)
          /\ evicted \cap sentClosed = {}
          /\ (kind = "ArrayMailbox" => dropped_message_count = 0))

\* REJECT refused two messages, then the mailbox was closed and a third send went to
\* the dead letters without being counted.
C37_Witness ==
    /\ overflow_policy = "REJECT" /\ kind = "BoundedMailbox"
    /\ dropped_message_count = 2 /\ Len(dead_letters) = 3
    /\ Cardinality(sentClosed) = 1

\* A step of an ArrayMailbox that holds the same fields: its send() of the next
\* message, or one of the methods and worker steps the two classes share.
ArrayMailboxStep ==
    \/ /\ sent' = sent + 1
       /\ ArraySend(sent')
       /\ UNCHANGED <<closed, suspended, delivering, delivered>>
    \/ Suspend \/ Resume \/ Close \/ Dispatch \/ WorkerStart \/ HandlerReturns

\* No send() of the bounded mailbox has taken the overflow path so far.
BelowCapacity == kind = "BoundedMailbox" /\ capacity >= 1 /\ evicted = {}

\* C38: a BoundedMailbox whose queue never reaches capacity behaves like an
\* ArrayMailbox. As long as no send() has found the queue full, every step of the
\* bounded mailbox is the step an ArrayMailbox takes from the same queue, flags,
\* workers, completions, deliveries and dead letters, so that deliveries, dead
\* letters, is_suspended(), is_closed(), is_receivable() and size() agree step by
\* step; dropped_message_count() is 0 and only sends to the closed mailbox are
\* settled with None.
C38_BoundedRefinesArray ==
    /\ [][BelowCapacity /\ BelowCapacity' => ArrayMailboxStep]_vars
    /\ [](BelowCapacity =>
            /\ dropped_message_count = 0
            /\ Range(dead_letters) = sentClosed
            /\ \A m \in Sent : "None" \in Range(deferred[m]) <=> m \in sentClosed)

\* A bounded mailbox of capacity 2 that never overflowed has buffered a message while
\* suspended, delivered three messages and dead-lettered one after close().
C38_Witness ==
    /\ BelowCapacity /\ capacity = 2
    /\ sentSuspended # {} /\ Len(delivered) = 3 /\ Len(dead_letters) = 1

\* ------------------------------------------------------------------ the scheduler
\* The schedules made so far.
Scheduled == {t \in Tasks : task_kind[t] # "none"}

\* The schedule still has executions ahead of it.
outstanding(t) == t \in Scheduled /\ task_state[t] = "pending"

\* CounterHolder.increment(), the action of the scheduler tests.
increment(c) == c + 1

\* Mutant of cancelled_state: cancelling stops a one-shot schedule only.
cancelled_stateOnceOnly(k) == IF k = "once" THEN "cancelled" ELSE "pending"

\* The state of a schedule of kind k that cancel() or close() has stopped.
cancelled_state(k) == "cancelled"

\* What a cancel() call on the Cancellable of schedule t may return: False once
\* cancel() was called on it, True when the call stops an outstanding schedule; the
\* specification leaves open what the first call returns when nothing is left to
\* prevent (the one-shot action already ran, or close() cancelled the schedule).
cancel_returns(t) ==
    IF cancel_flag[t] THEN {FALSE}
    ELSE IF outstanding(t) THEN {TRUE}
    ELSE BOOLEAN

\* The next schedule to be made is schedule t; the scheduler is open.
NextSchedule(t) ==
    /\ ~scheduler_closed
    /\ task_kind[t] = "none"
    /\ \A u \in Tasks : u < t => task_kind[u] # "none"

\* scheduler.schedule_once(delay, action)
schedule_once(t) ==
    /\ NextSchedule(t)
    /\ task_kind' = [task_kind EXCEPT ![t] = "once"]
    /\ UNCHANGED <<single, stage, bank, task_state, executions, cancel_flag, cancel_results,
                   scheduler_closed>>

\* scheduler.schedule_repeat(initial_delay, interval, action)
schedule_repeat(t) ==
    /\ NextSchedule(t)
    /\ task_kind' = [task_kind EXCEPT ![t] = "repeat"]
    /\ UNCHANGED <<single, stage, bank, task_state, executions, cancel_flag, cancel_results,
                   scheduler_closed>>

\* The delay (or the next interval) of schedule t elapses and its action runs; an
\* action that raises is caught, so the schedule goes on as after one that returns.
Execute(t) ==
    /\ outstanding(t)
    /\ executions[t] < MaxTicks
    /\ executions' = [executions EXCEPT ![t] = increment(@)]
    /\ task_state' = [task_state EXCEPT ![t] = IF task_kind[t] = "once" THEN "executed" ELSE @]
    /\ UNCHANGED <<single, stage, bank, task_kind, cancel_flag, cancel_results, scheduler_closed>>

\* cancellable.cancel() on the Cancellable of schedule t
cancel(t) ==
    /\ t \in Scheduled
    /\ Len(cancel_results[t]) < MaxCancels
    /\ \E r \in cancel_returns(t) :
          cancel_results' = [cancel_results EXCEPT ![t] = Append(@, r)]
    /\ cancel_flag' = [cancel_flag EXCEPT ![t] = TRUE]
    /\ task_state' = [task_state EXCEPT
                        ![t] = IF outstanding(t) THEN cancelled_state(task_kind[t]) ELSE @]
    /\ UNCHANGED <<single, stage, bank, task_kind, executions, scheduler_closed>>

\* scheduler.close(): cancels every outstanding schedule; a second close() does nothing.
SchedulerClose ==
    /\ scheduler_closed' = TRUE
    /\ task_state' = [t \in Tasks |->
                        IF outstanding(t) THEN cancelled_state(task_kind[t]) ELSE task_state[t]]
    /\ UNCHANGED <<single, stage, bank, task_kind, executions, cancel_flag, cancel_results>>

SchedulerInit ==
    /\ buckets = 1
    /\ StageFields
    /\ kind = "ArrayMailbox" /\ capacity = 0 /\ overflow_policy = "DROP_OLDEST"
    /\ supervisor = "restart"
    /\ supervision_strategy(TestStrategy)
    /\ InitFields

SchedulerNext ==
    \/ \E t \in Tasks : schedule_once(t)
    \/ \E t \in Tasks : schedule_repeat(t)
    \/ \E t \in Tasks : Execute(t)
    \/ \E t \in Tasks : cancel(t)
    \/ SchedulerClose

SchedulerSpec == SchedulerInit /\ [][SchedulerNext]_vars

\* The schedules on which cancel() has been called.
Cancelled == {t \in Tasks : cancel_flag[t]}

MAX_RETRY_ATTEMPTS == 3

\* The protocol methods of the two actors that change state (TransactionHistory,
\* TransferCoordinator); every one of them can be called through the proxy.
HistoryMethods == {"record_transaction", "append_transaction"}

CoordinatorMethods ==
    {"initiate_transfer", "record_pending_transfer", "attempt_deposit",
     "handle_deposit_failure", "process_refund", "complete_transfer"}

Methods(c) ==
    IF c = "TransactionHistoryActor" THEN HistoryMethods ELSE CoordinatorMethods

\* The completion of message m is settled.
Settled(m) == deferred[m] # <<>>

\* The handler of message h, a call of method x, is running (the worker awaits
\* deliver() of h), has made n calls on the self-proxy so far, and is not waiting:
\* the completion it awaits, if any, is settled.
Running(h, x, n) ==
    /\ h \in delivering
    /\ method[h] = x
    /\ calls[h] = n
    /\ IF awaits[h] = 0 THEN TRUE ELSE Settled(awaits[h])

\* "await self._self.x(...)" in the handler of h: the self-proxy makes the next
\* message, passes it to send() of the actor's own mailbox, and the handler awaits
\* its completion.
SelfCall(h, x) ==
    /\ sent < MaxMsgs
    /\ SendNext(sent + 1)
    /\ sentDuring' = sentDuring \cup {<<sent + 1, h>>}
    /\ method' = [method EXCEPT ![sent + 1] = x]
    /\ calls' = [calls EXCEPT ![h] = @ + 1]
    /\ awaits' = [awaits EXCEPT ![h] = sent + 1]
    /\ actor_class' = actor_class

\* The handler of h returns a value or raises: "await message.deliver()" returns to
\* the worker, which goes round its loop.
Returns(h, outcome) ==
    /\ deliver(h, outcome)
    /\ DispatchLoop(suspended', tasks, delivering \ {h})
    /\ raised' = IF outcome = "error" THEN raised \cup {h} ELSE raised
    /\ awaits' = [awaits EXCEPT ![h] = 0]
    /\ UNCHANGED <<stage, scheduler, window, config, closed, dropped_message_count, sent,
                   dead_letters, hist, supervisor, count, restart_count,
                   before_resume_called, stopped, sentDuring, actor_class, method, calls>>

\* TransactionHistoryActor.record_transaction
record_transaction(h) ==
    \/ /\ Running(h, "record_transaction", 0)
       /\ SelfCall(h, "append_transaction")
       /\ UNCHANGED ledger
    \/ /\ Running(h, "record_transaction", 1)
       /\ Returns(h, "value")
       /\ UNCHANGED ledger

\* TransactionHistoryActor.append_transaction
append_transaction(h) ==
    /\ Running(h, "append_transaction", 0)
    /\ transactions' = transactions + 1
    /\ Returns(h, "value")
    /\ UNCHANGED <<pending_transfers, deposits, failed_deposits, refunds, retries,
                   retries_scheduled, completed>>

\* TransferCoordinatorActor.initiate_transfer: the validation or the withdrawal
\* raises, or the withdrawal succeeds and two self-proxy calls follow.
initiate_transfer(h) ==
    \/ /\ Running(h, "initiate_transfer", 0)
       /\ \E withdrawn \in BOOLEAN :
             IF withdrawn THEN SelfCall(h, "record_pending_transfer")
             ELSE Returns(h, "error")
       /\ UNCHANGED ledger
    \/ /\ Running(h, "initiate_transfer", 1)
       /\ SelfCall(h, "attempt_deposit")
       /\ UNCHANGED ledger
    \/ /\ Running(h, "initiate_transfer", 2)
       /\ Returns(h, "value")
       /\ UNCHANGED ledger

\* The attempts of the PendingTransfer a record_pending_transfer message carries: 0
\* when initiate_transfer made it, what the caller passed otherwise.
AttemptsPassed(h) ==
    IF \E p \in sentDuring : p[1] = h THEN {0} ELSE 0..(MAX_RETRY_ATTEMPTS - 1)

\* TransferCoordinatorActor.record_pending_transfer
record_pending_transfer(h) ==
    /\ Running(h, "record_pending_transfer", 0)
    /\ \E a \in AttemptsPassed(h) :
          pending_transfers' = [status |-> "withdrawn", attempts |-> a]
    /\ Returns(h, "value")
    /\ UNCHANGED <<transactions, deposits, failed_deposits, refunds, retries,
                   retries_scheduled, completed>>

\* TransferCoordinatorActor.attempt_deposit; both accounts are registered.
attempt_deposit(h) ==
    \/ /\ Running(h, "attempt_deposit", 0)
       /\ pending_transfers = NoTransfer
       /\ Returns(h, "value")
       /\ UNCHANGED ledger
    \/ /\ Running(h, "attempt_deposit", 0)
       /\ pending_transfers # NoTransfer
       /\ \E deposited \in BOOLEAN :
             IF deposited
             THEN /\ deposits' = deposits + 1
                  /\ failed_deposits' = failed_deposits
                  /\ SelfCall(h, "complete_transfer")
             ELSE /\ deposits' = deposits
                  /\ failed_deposits' = failed_deposits + 1
                  /\ SelfCall(h, "handle_deposit_failure")
       /\ UNCHANGED <<pending_transfers, transactions, refunds, retries,
                      retries_scheduled, completed>>
    \/ /\ Running(h, "attempt_deposit", 1)
       /\ Returns(h, "value")
       /\ UNCHANGED ledger

\* TransferCoordinatorActor.handle_deposit_failure
handle_deposit_failure(h) ==
    \/ /\ Running(h, "handle_deposit_failure", 0)
       /\ pending_transfers = NoTransfer
       /\ Returns(h, "value")
       /\ UNCHANGED ledger
    \/ /\ Running(h, "handle_deposit_failure", 0)
       /\ pending_transfers # NoTransfer
       /\ LET attempts == pending_transfers.attempts + 1 IN
          /\ pending_transfers' = [pending_transfers EXCEPT !.attempts = attempts]
          /\ IF attempts < MAX_RETRY_ATTEMPTS
             THEN /\ retries' = retries + 1
                  /\ retries_scheduled' = retries_scheduled + 1
                  /\ Returns(h, "value")
             ELSE /\ UNCHANGED <<retries, retries_scheduled>>
                  /\ SelfCall(h, "process_refund")
       /\ UNCHANGED <<transactions, deposits, failed_deposits, refunds, completed>>
    \/ /\ Running(h, "handle_deposit_failure", 1)
       /\ Returns(h, "value")
       /\ UNCHANGED ledger

\* TransferCoordinatorActor.process_refund: from_account.refund returns or raises,
\* the status becomes 'refunded' either way.
process_refund(h) ==
    \/ /\ Running(h, "process_refund", 0)
       /\ pending_transfers = NoTransfer
       /\ Returns(h, "value")
       /\ UNCHANGED ledger
    \/ /\ Running(h, "process_refund", 0)
       /\ pending_transfers # NoTransfer
       /\ \E refunded \in BOOLEAN :
             refunds' = IF refunded THEN refunds + 1 ELSE refunds
       /\ pending_transfers' = [pending_transfers EXCEPT !.status = "refunded"]
       /\ SelfCall(h, "complete_transfer")
       /\ UNCHANGED <<transactions, deposits, failed_deposits, retries,
                      retries_scheduled, completed>>
    \/ /\ Running(h, "process_refund", 1)
       /\ Returns(h, "value")
       /\ UNCHANGED ledger

\* TransferCoordinatorActor.complete_transfer
complete_transfer(h) ==
    /\ Running(h, "complete_transfer", 0)
    /\ IF pending_transfers # NoTransfer
       THEN /\ completed' = Append(completed,
                                   IF pending_transfers.status = "withdrawn"
                                   THEN "completed" ELSE pending_transfers.status)
            /\ pending_transfers' = NoTransfer
       ELSE UNCHANGED <<completed, pending_transfers>>
    /\ Returns(h, "value")
    /\ UNCHANGED <<transactions, deposits, failed_deposits, refunds, retries,
                   retries_scheduled>>

\* The running handler takes its next step.
HandlerStep ==
    \E h \in Msgs :
        \/ record_transaction(h)
        \/ append_transaction(h)
        \/ initiate_transfer(h)
        \/ record_pending_transfer(h)
        \/ attempt_deposit(h)
        \/ handle_deposit_failure(h)
        \/ process_refund(h)
        \/ complete_transfer(h)

\* A caller passes a call of method x to the actor's proxy.
Call(x) ==
    /\ sent < MaxMsgs
    /\ x \in Methods(actor_class)
    /\ SendNext(sent + 1)
    /\ sentDuring' = sentDuring
    /\ method' = [method EXCEPT ![sent + 1] = x]
    /\ UNCHANGED <<actor_class, calls, awaits, ledger>>

\* RetryTask.interval_signal: the delay of a scheduled retry has elapsed and the task
\* it creates calls attempt_deposit on the self-proxy.
RetryFires ==
    /\ retries > 0
    /\ sent < MaxMsgs
    /\ retries' = retries - 1
    /\ SendNext(sent + 1)
    /\ sentDuring' = sentDuring
    /\ method' = [method EXCEPT ![sent + 1] = "attempt_deposit"]
    /\ UNCHANGED <<actor_class, calls, awaits, pending_transfers, transactions, deposits,
                   failed_deposits, refunds, retries_scheduled, completed>>

\* An actor of the bank example behind the default ArrayMailbox; its supervisor
\* (TransferSupervisor, AccountSupervisor) resumes it after a failure.
BankInit ==
    /\ buckets = 1
    /\ StageFields
    /\ kind = "ArrayMailbox"
    /\ capacity = 0
    /\ overflow_policy = "DROP_OLDEST"
    /\ supervisor = "resume"
    /\ supervision_strategy(TestStrategy)
    /\ MailboxFields
    /\ actor_class \in {"TransactionHistoryActor", "TransferCoordinatorActor"}

\* Callers and the retry tasks reach the actor through its proxy, the worker runs
\* the handlers, the supervisor resumes the mailbox, and stopping the actor closes it.
BankNext ==
    \/ \E x \in HistoryMethods \cup CoordinatorMethods : Call(x)
    \/ RetryFires
    \/ WorkerStart
    \/ HandlerStep
    \/ SupervisorApplies
    \/ Close

BankSpec == BankInit /\ [][BankNext]_vars

\* The event loop runs every scheduled task and every handler that is not waiting,
\* the retry delays elapse, and the supervisor's mailbox delivers every inform.
FairBankSpec ==
    BankSpec /\ WF_vars(WorkerStart) /\ WF_vars(HandlerStep) /\ WF_vars(RetryFires)
             /\ WF_vars(SupervisorApplies)

\* C39: a handler that sends a message to its own self-proxy and awaits its
\* completion eventually returns with the self-sent message delivered: on a mailbox
\* that is never closed, the message awaited by a running record_transaction or
\* initiate_transfer handler is eventually delivered and the handler's own
\* completion is eventually settled.
C39_SelfAwaitReturns ==
    []~closed =>
        \A h, a \in Msgs :
            (method[h] \in {"record_transaction", "initiate_transfer"} /\ awaits[h] = a)
                ~> (a \in Range(delivered) /\ Settled(h))

====
